---- MODULE Spec2Model ----
(***************************************************************************)
(* A model of dataset_conversion_scripts/convert_dataset_v21_to_v30.py:     *)
(* the conversion of a LeRobot v2.1 dataset (one tabular file and one       *)
(* video per episode) into the v3.0 layout (one consolidated file, one      *)
(* metadata row per episode with its row range, global statistics).         *)
(*                                                                         *)
(* Numbers.  Statistics are floating point in the program.  The model       *)
(* keeps them exact: a statistic is an integer number of hundredths, a      *)
(* weighted average is the fraction <<numerator, denominator>> that         *)
(* np.average forms, and a square root is kept as its radicand.  Rounding   *)
(* of the floating point operations is not modelled.                        *)
(***************************************************************************)
EXTENDS Integers, Sequences, FiniteSets, TLC

\* ------------------------------------------------------------------ bounds
\* Episode indices of the source dataset are 0 .. MaxEpisodes - 1.
MaxEpisodes == 2
\* A per-episode data file holds 1 .. MaxLen rows.
MaxLen == 2

\* The statistics handed to the aggregation alone cover up to MaxStatEpisodes
\* episodes.
MaxStatEpisodes == 2

EpisodeIds == 0 .. (MaxEpisodes - 1)

\* The places a per-episode data file episode_<idx>.parquet can be in the
\* source tree: the chunk the converter reads, another chunk, nowhere.
Chunk000 == "chunk-000"
Chunk001 == "chunk-001"
Absent == "absent"

\* The metadata files step 1 opens, lines 174-177 (with lines 36, 45, 55).
MetaFiles == {"meta/info.json", "meta/episodes.jsonl",
              "meta/episodes_stats.jsonl", "meta/tasks.jsonl"}

\* A value the metadata table has no entry for (pandas fills it with NaN).
NaN == -1

\* The feature schema of the descriptor, info["features"]: name -> dtype, and
\* the order of its keys.
Features == [action |-> "float32", cam |-> "video"]
FeatureKeys == <<"action", "cam", "wrist">>

\* The schema of a dataset with a second camera.
TwoCameraFeatures == [action |-> "float32", cam |-> "video", wrist |-> "video"]

\* The files of the destination root.
InfoFile == <<"meta/info.json", "">>
TasksFile == <<"meta/tasks.parquet", "">>
DataFile == <<"data/chunk-000/file-000.parquet", "">>
EpisodesFile == <<"meta/episodes/chunk-000/file-000.parquet", "">>
StatsFile == <<"meta/stats.json", "">>
VideoFile(video_key) == <<"videos/<key>/chunk-000/file-000.mp4", video_key>>
ConcatFile(video_key) == <<"concat_<key>.txt", video_key>>

VARIABLES
    pc,                 \* the step convert_to_v30 is about to execute
    error,              \* the exception that ended the run, "" if none
    \* --- the source dataset (read only)
    src_episodes,       \* meta/episodes.jsonl: the records, in storage order
    src_stats,          \* meta/episodes_stats.jsonl: the records, in order
    src_chunk,          \* episode index -> place of its data file
    src_len,            \* episode index -> rows of its data file
    src_videos,         \* video key -> episodes with a video in chunk-000
    src_info,           \* meta/info.json
    src_missing,        \* the metadata files the source root lacks
    src_schema,         \* episode index -> what its data file is like
    src_row_mb,         \* the size of a row of the data files, in MB
    \* --- what the run has loaded
    info, v21_episodes, episodes_stats,
    \* --- the loops' state
    video_i,            \* position of the loop over video_keys (step 5)
    idx,                \* position of the loop over v21_episodes (step 6)
    cumulative_index,   \* the row cursor of step 6
    episodes_data,      \* the metadata rows assembled so far
    \* --- the destination root
    dst_files,          \* the paths of the files that exist under new_root
    dst_info,           \* content of meta/info.json
    dst_data,           \* content of data/chunk-000/file-000.parquet: rows
    dst_videos,         \* video key -> episodes held by its file-000.mp4
    dst_episodes,       \* content of meta/episodes/chunk-000/file-000.parquet
    dst_stats,          \* content of meta/stats.json
    dst_stale,          \* the paths under new_root whose content is older
                        \* than the run (left by an earlier conversion)
    \* --- the aggregation of statistics taken alone
    global_stats,
    \* --- a function of the module called alone
    call,               \* the function's name and arguments
    returned            \* what it returned, <<>> before the call

vars == <<pc, error, src_episodes, src_stats, src_chunk, src_len, src_videos,
          src_info, info, v21_episodes, episodes_stats, video_i, idx,
          cumulative_index, episodes_data, dst_files, dst_info, dst_data,
          dst_videos, dst_episodes, dst_stats, global_stats, src_missing,
          src_schema, src_row_mb, dst_stale, call, returned>>

srcVars == <<src_episodes, src_stats, src_chunk, src_len, src_videos, src_info,
             src_missing, src_schema, src_row_mb>>

callVars == <<call, returned>>

\* ----------------------------------------------------------------- helpers
RECURSIVE SumSeq(_)
SumSeq(s) == IF s = <<>> THEN 0 ELSE Head(s) + SumSeq(Tail(s))

RECURSIVE Flatten(_)
Flatten(ss) == IF ss = <<>> THEN <<>> ELSE Head(ss) \o Flatten(Tail(ss))

Range(s) == {s[i] : i \in DOMAIN s}

Min(S) == CHOOSE x \in S : \A y \in S : x <= y
Max(S) == CHOOSE x \in S : \A y \in S : x >= y

\* sorted(...) of a set of episode file names: episode_%06d sorts as its index.
RECURSIVE Sorted(_)
Sorted(S) == IF S = {} THEN <<>> ELSE <<Min(S)>> \o Sorted(S \ {Min(S)})

\* The sequences that list every element of S exactly once.
Orders(S) == {s \in [1 .. Cardinality(S) -> S] : Range(s) = S}

\* ------------------------------------------------- statistics: aggregation
\* A statistic of a feature is a list of numbers (hundredths), one per
\* dimension.  A count is a scalar (ndim 0) or a list (ndim 1); v holds its
\* elements either way.
\* A slip in np.min: the axis is left out, so the minimum is the one of the
\* whole array, repeated for every dimension.
NpMinAxis0_NoAxis(rows) ==
    [j \in 1 .. Len(rows[1]) |->
        Min({rows[i][k] : i \in DOMAIN rows, k \in DOMAIN rows[1]})]

\* np.min(a, axis=0) and np.max(a, axis=0) of the stacked per-episode lists.
NpMinAxis0(rows) ==
    [j \in 1 .. Len(rows[1]) |-> Min({rows[i][j] : i \in DOMAIN rows})]

NpMaxAxis0(rows) ==
    [j \in 1 .. Len(rows[1]) |-> Max({rows[i][j] : i \in DOMAIN rows})]

\* np.sum(a, axis=0).
NpSumAxis0(rows) ==
    [j \in 1 .. Len(rows[1]) |-> SumSeq([i \in DOMAIN rows |-> rows[i][j]])]

\* np.average(a, axis=0, weights=w): per column, sum(w * a) / sum(w), kept as
\* the fraction <<sum(w * a), sum(w)>>.
NpAverage(rows, weights) ==
    [j \in 1 .. Len(rows[1]) |->
        <<SumSeq([i \in DOMAIN rows |-> weights[i] * rows[i][j]]),
          SumSeq(weights)>>]

\* a ** 2, element by element.
NpSquare(rows) ==
    [i \in DOMAIN rows |-> [j \in DOMAIN rows[i] |-> rows[i][j] * rows[i][j]]]

\* np.sqrt of a list of fractions: each root is kept as its radicand.
NpSqrt(fracs) == [j \in DOMAIN fracs |-> [radicand |-> fracs[j]]]

\* The weights of lines 106-112: the counts themselves when they are scalars,
\* the first column of the stacked counts when they are lists.
Weights(all_counts) ==
    IF all_counts[1].ndim = 0
    THEN [i \in DOMAIN all_counts |-> all_counts[i].v[1]]
    ELSE [i \in DOMAIN all_counts |-> all_counts[i].v[1]]

\* A slip in line 120: the test of ndim is dropped and the counts are always
\* summed to one number.
GlobalCount_AlwaysScalar(all_counts) ==
    <<SumSeq([i \in DOMAIN all_counts |-> all_counts[i].v[1]])>>

\* The "count" entry of line 120.
GlobalCount(all_counts) ==
    IF all_counts[1].ndim > 0
    THEN NpSumAxis0([i \in DOMAIN all_counts |-> all_counts[i].v])
    ELSE <<SumSeq([i \in DOMAIN all_counts |-> all_counts[i].v[1]])>>

\* Lines 89-97: the statistics of feat_name of the episodes that have it, in
\* the order of the dictionary.
CollectFeature(es, feat_name) ==
    LET having == SelectSeq(es, LAMBDA r : feat_name \in DOMAIN r.stats)
    IN  [i \in DOMAIN having |-> having[i].stats[feat_name]]

\* Lines 81-121 for one feature.
GlobalFeatureStats(es, feat_name) ==
    LET fs == CollectFeature(es, feat_name)
        all_mins == [i \in DOMAIN fs |-> fs[i]["min"]]
        all_maxs == [i \in DOMAIN fs |-> fs[i]["max"]]
        all_means == [i \in DOMAIN fs |-> fs[i]["mean"]]
        all_stds == [i \in DOMAIN fs |-> fs[i]["std"]]
        all_counts == [i \in DOMAIN fs |-> fs[i]["count"]]
        weights == Weights(all_counts)
    IN  [min |-> NpMinAxis0(all_mins),
         max |-> NpMaxAxis0(all_maxs),
         mean |-> NpAverage(all_means, weights),
         std |-> NpSqrt(NpAverage(NpSquare(all_stds), weights)),
         count |-> GlobalCount(all_counts)]

\* The feature names of line 78-79: the keys of the first episode's statistics.
FeatureNames(es) == DOMAIN es[1].stats

\* compute_global_stats_from_episodes.  es is the dictionary episode index ->
\* statistics as the sequence of its items in insertion order; it is not empty
\* (line 78 raises IndexError on an empty dictionary).
compute_global_stats_from_episodes(es) ==
    [feat_name \in FeatureNames(es) |-> GlobalFeatureStats(es, feat_name)]

\* --------------------------------------------------- statistics: quantiles
\* The quantile levels of compute_quantiles, in hundredths.
QuantileLevels == [q01 |-> 1, q10 |-> 10, q50 |-> 50, q90 |-> 90, q99 |-> 99]

\* np.quantile(column, q / 100) with linear interpolation between the order
\* statistics: with h = q * (n - 1) / 100, x[floor h] + frac(h) * (x[floor h
\* + 1] - x[floor h]), kept as the fraction <<numerator, 100>>.
RECURSIVE SortedBag(_)
SortedBag(xs) ==
    IF xs = <<>> THEN <<>>
    ELSE LET m == Min(Range(xs))
             i == CHOOSE k \in DOMAIN xs : xs[k] = m
         IN  <<m>> \o SortedBag(SubSeq(xs, 1, i - 1) \o SubSeq(xs, i + 1, Len(xs)))

NpQuantile_Lower(column, q) ==
    LET x == SortedBag(column)
        lo == (q * (Len(x) - 1)) \div 100
    IN  <<100 * x[lo + 1], 100>>

NpQuantile(column, q) ==
    LET x == SortedBag(column)
        n == Len(x)
        lo == (q * (n - 1)) \div 100
        frac == (q * (n - 1)) % 100
        hi == IF lo + 1 < n THEN lo + 1 ELSE lo
    IN  <<100 * x[lo + 1] + frac * (x[hi + 1] - x[lo + 1]), 100>>

\* compute_quantiles: data is the list of the rows' values of one feature,
\* each a list with one number per dimension; the quantiles are per column.
compute_quantiles(data) ==
    [name \in DOMAIN QuantileLevels |->
        [j \in 1 .. Len(data[1]) |->
            NpQuantile([i \in DOMAIN data |-> data[i][j]], QuantileLevels[name])]]

PlaceholderQuantiles_MedianIsMax(feat_stats) ==
    [q01 |-> feat_stats["min"], q10 |-> feat_stats["min"],
     q50 |-> feat_stats["max"],
     q90 |-> feat_stats["max"], q99 |-> feat_stats["max"]]

\* Lines 139-147: the placeholder quantiles of a video feature.
PlaceholderQuantiles(feat_stats) ==
    [q01 |-> feat_stats["min"], q10 |-> feat_stats["min"],
     q50 |-> feat_stats["mean"],
     q90 |-> feat_stats["max"], q99 |-> feat_stats["max"]]

\* df_episode.columns, line 151.
Columns(df_episode) == DOMAIN df_episode[1]

\* add_quantiles_to_episode_stats: ep_stats with the quantile entries added
\* (the program updates the dictionary in place and returns it).
add_quantiles_to_episode_stats(ep_stats, df_episode, features) ==
    [feat_name \in DOMAIN ep_stats |->
        IF feat_name \notin DOMAIN features THEN ep_stats[feat_name]
        ELSE IF features[feat_name] = "video"
        THEN IF "min" \in DOMAIN ep_stats[feat_name]
             THEN PlaceholderQuantiles(ep_stats[feat_name]) @@ ep_stats[feat_name]
             ELSE ep_stats[feat_name]
        ELSE IF feat_name \in Columns(df_episode)
        THEN compute_quantiles([i \in DOMAIN df_episode |-> df_episode[i][feat_name]])
                 @@ ep_stats[feat_name]
        ELSE ep_stats[feat_name]]

\* ------------------------------------------------------ the source dataset
\* The rows of the data file of episode e: frame f of episode e carries its
\* frame index, its timestamp (in frames) and one constant action value.
EpisodeRows(e, n) ==
    [f \in 1 .. n |-> [episode_index |-> e, frame_index |-> f - 1,
                       timestamp |-> f - 1, action |-> <<100 * (e + 1)>>]]

\* What a data file can be like: the columns and types every file of the
\* dataset should have, one column more, the timestamp column in another
\* float type, or a file pd.read_parquet cannot read.
FileKinds == {"plain", "extra_column", "float64_timestamp", "unreadable"}

\* The columns of the data file of episode e and their types.
FileSchema(e) ==
    [episode_index |-> "int64", frame_index |-> "int64",
     timestamp |-> IF src_schema[e] = "float64_timestamp" THEN "float64" ELSE "float32",
     action |-> "object"]
    @@ (IF src_schema[e] = "extra_column"
        THEN [extra |-> "int64"] ELSE [c \in {} |-> ""])

\* pd.read_parquet of the data file of episode e (a readable one).
ReadEpisodeFile(e) ==
    IF src_schema[e] = "extra_column"
    THEN [f \in 1 .. src_len[e] |-> EpisodeRows(e, src_len[e])[f] @@ [extra |-> e]]
    ELSE EpisodeRows(e, src_len[e])

\* sorted((root / "data/chunk-000").glob("episode_*.parquet")), as indices.
GlobChunk000 == Sorted({e \in EpisodeIds : src_chunk[e] = Chunk000})

\* load_v21_episodes: the records of episodes.jsonl, one DataFrame row each,
\* in the order of the file.
load_v21_episodes(records) == records

\* load_v21_episodes_stats: the dictionary episode index -> stats, as the
\* sequence of its items; a repeated key keeps its place and takes the later
\* value.
RECURSIVE DictFromRecords(_, _)
DictFromRecords(d, records) ==
    IF records = <<>> THEN d
    ELSE LET item == Head(records)
             pos == {i \in DOMAIN d : d[i].episode_index = item.episode_index}
         IN  DictFromRecords(
                 IF pos = {} THEN Append(d, item)
                 ELSE [i \in DOMAIN d |-> IF i \in pos THEN item ELSE d[i]],
                 Tail(records))

load_v21_episodes_stats(records) == DictFromRecords(<<>>, records)

\* v21_episodes_stats.get(ep_idx, {}).
DictGet(d, ep_idx) ==
    LET pos == {i \in DOMAIN d : d[i].episode_index = ep_idx}
    IN  IF pos = {} THEN <<>> ELSE d[CHOOSE i \in pos : TRUE].stats

\* The dictionary after add_quantiles_to_episode_stats updated the entry of
\* ep_idx in place (no entry: the {} of get is updated and dropped).
DictUpdated(d, ep_idx, new_stats) ==
    [i \in DOMAIN d |->
        IF d[i].episode_index = ep_idx
        THEN [episode_index |-> ep_idx, stats |-> new_stats] ELSE d[i]]

\* video_keys of lines 212 and 249.
video_keys(inf) ==
    SelectSeq(FeatureKeys, LAMBDA k : /\ k \in DOMAIN inf["features"]
                                      /\ inf["features"][k] = "video")

\* ------------------------------------------------------------ the run: Init
\* The source descriptor of a dataset whose episode index lists `records`.
SourceInfo(records) ==
    [codebase_version |-> "v2.1",
     total_episodes |-> Len(records),
     total_frames |-> SumSeq([i \in DOMAIN records |-> records[i].length]),
     total_chunks |-> 1,
     chunks_size |-> 1000,
     fps |-> 30,
     data_path |-> "data/chunk-{episode_chunk:03d}/episode_{episode_index:06d}.parquet",
     video_path |-> "videos/chunk-{episode_chunk:03d}/{video_key}/episode_{episode_index:06d}.mp4",
     features |-> Features]

\* The statistics the source records for an episode of n frames: the action
\* column is constant, the camera statistics are per channel.
SourceStats(e, n) ==
    [action |-> [min |-> <<100 * (e + 1)>>, max |-> <<100 * (e + 1)>>,
                 mean |-> <<100 * (e + 1)>>, std |-> <<0>>,
                 count |-> [ndim |-> 1, v |-> <<n>>]],
     cam |-> [min |-> <<0>>, max |-> <<100>>, mean |-> <<50>>, std |-> <<10>>,
              count |-> [ndim |-> 1, v |-> <<n>>]]]

NoStats == <<>>

\* No function is called on its own.
NoCall ==
    /\ call = <<>>
    /\ returned = <<>>

\* What the run holds before it has loaded anything.
NothingLoaded ==
    /\ error = ""
    /\ info = <<>>
    /\ v21_episodes = <<>>
    /\ video_i = 1
    /\ idx = 1
    /\ cumulative_index = 0
    /\ episodes_data = <<>>

\* What this run has written: nothing yet.
NothingWritten ==
    /\ dst_info = <<>>
    /\ dst_data = <<>>
    /\ dst_videos = [k \in {} |-> <<>>]
    /\ dst_episodes = <<>>
    /\ dst_stats = <<>>

\* What the run holds before it has loaded or written anything, the
\* destination root being empty.
FreshRun ==
    /\ NothingLoaded
    /\ NothingWritten
    /\ dst_files = {}
    /\ dst_stale = {}

\* A source dataset: the first k episode indices are listed in episodes.jsonl,
\* in any storage order; each data file is in chunk-000, in another chunk or
\* absent (a file of an unlisted episode is a stray one); a camera has a
\* video per listed episode or none; at most one metadata file is missing.
Init ==
    /\ pc = "load"
    /\ FreshRun
    /\ NoCall
    /\ episodes_stats = NoStats
    /\ global_stats = NoStats
    /\ \E k \in 0 .. MaxEpisodes :
         /\ src_len \in [EpisodeIds -> 1 .. MaxLen]
         /\ src_chunk \in [EpisodeIds -> {Chunk000, Chunk001, Absent}]
         /\ \A e \in EpisodeIds :
              e >= k => /\ src_chunk[e] # Chunk001
                        /\ (src_chunk[e] = Absent => src_len[e] = 1)
         /\ \E order \in Orders(0 .. (k - 1)) :
              /\ src_episodes = [i \in DOMAIN order |->
                    [episode_index |-> order[i], length |-> src_len[order[i]]]]
              /\ src_stats = [i \in DOMAIN order |->
                    [episode_index |-> order[i],
                     stats |-> SourceStats(order[i], src_len[order[i]])]]
         /\ src_videos \in [{"cam"} -> {{}, 0 .. (k - 1)}]
         /\ src_info = SourceInfo(src_episodes)
    /\ src_missing \in {{}} \cup {{f} : f \in MetaFiles}
    /\ src_schema = [e \in EpisodeIds |-> "plain"]
    /\ src_row_mb \in {1, 100}

\* --------------------------------------------------------- the run: steps
Fail(exception) ==
    /\ pc' = "failed"
    /\ error' = exception

\* Step 1, lines 172-177: load the v2.1 metadata.  open() and
\* jsonlines.open() raise FileNotFoundError on a file that does not exist.
LoadMetadata ==
    /\ pc = "load"
    /\ \/ /\ src_missing = {}
          /\ info' = src_info
          /\ v21_episodes' = load_v21_episodes(src_episodes)
          /\ episodes_stats' = load_v21_episodes_stats(src_stats)
          /\ pc' = "convert_info"
          /\ UNCHANGED error
       \/ /\ src_missing # {}
          /\ Fail("FileNotFoundError")
          /\ UNCHANGED <<info, v21_episodes, episodes_stats>>
    /\ UNCHANGED <<srcVars, callVars, video_i, idx, cumulative_index, episodes_data,
                   dst_files, dst_stale, dst_info, dst_data, dst_videos, dst_episodes,
                   dst_stats, global_stats>>

ConvertedInfo_KeepsTotalChunks(inf) ==
    [k \in DOMAIN inf
            \cup {"chunks_size", "data_files_size_in_mb", "video_files_size_in_mb"} |->
        CASE k = "codebase_version" -> "v3.0"
          [] k = "data_path" -> "data/chunk-{chunk_index:03d}/file-{file_index:03d}.parquet"
          [] k = "video_path" ->
                 "videos/{video_key}/chunk-{chunk_index:03d}/file-{file_index:03d}.mp4"
          [] k = "chunks_size" -> 1000
          [] k = "data_files_size_in_mb" -> 200
          [] k = "video_files_size_in_mb" -> 200
          [] OTHER -> inf[k]]

\* Lines 181-191: the target descriptor.
ConvertedInfo(inf) ==
    [k \in (DOMAIN inf \ {"total_chunks"})
            \cup {"chunks_size", "data_files_size_in_mb", "video_files_size_in_mb"} |->
        CASE k = "codebase_version" -> "v3.0"
          [] k = "data_path" -> "data/chunk-{chunk_index:03d}/file-{file_index:03d}.parquet"
          [] k = "video_path" ->
                 "videos/{video_key}/chunk-{chunk_index:03d}/file-{file_index:03d}.mp4"
          [] k = "chunks_size" -> 1000
          [] k = "data_files_size_in_mb" -> 200
          [] k = "video_files_size_in_mb" -> 200
          [] OTHER -> inf[k]]

\* Step 2, lines 179-194: convert info.json and write it.
ConvertInfo ==
    /\ pc = "convert_info"
    /\ info' = ConvertedInfo(info)
    /\ dst_info' = info'
    /\ dst_files' = dst_files \cup {InfoFile}
    /\ dst_stale' = dst_stale \ {InfoFile}
    /\ pc' = "convert_tasks"
    /\ UNCHANGED <<error, srcVars, callVars, v21_episodes, episodes_stats, video_i, idx,
                   cumulative_index, episodes_data, dst_data, dst_videos,
                   dst_episodes, dst_stats, global_stats>>

\* Step 3, lines 196-198: write tasks.parquet.
ConvertTasks ==
    /\ pc = "convert_tasks"
    /\ dst_files' = dst_files \cup {TasksFile}
    /\ dst_stale' = dst_stale \ {TasksFile}
    /\ pc' = "merge_data"
    /\ UNCHANGED <<error, srcVars, callVars, info, v21_episodes, episodes_stats, video_i,
                   idx, cumulative_index, episodes_data, dst_info, dst_data,
                   dst_videos, dst_episodes, dst_stats, global_stats>>

\* pd.concat(frames, ignore_index=True): the rows of the frames one after
\* the other under the union of the frames' columns; a row gets NaN in a
\* column its frame does not have.
PdConcat(frames) ==
    LET columns == UNION {Columns(frames[i]) : i \in DOMAIN frames}
        rows == Flatten(frames)
    IN  [i \in DOMAIN rows |->
            [c \in columns |-> IF c \in DOMAIN rows[i] THEN rows[i][c] ELSE NaN]]

\* The column types pd.concat gives the frames of the files `files`: the
\* type the frames share, float64 for float32 with float64, and float64 for
\* an int64 column some frame lacks (it is filled with NaN).
PdConcatSchema(files) ==
    LET columns == UNION {DOMAIN FileSchema(e) : e \in files}
    IN  [c \in columns |->
            LET types == {FileSchema(e)[c] : e \in {x \in files : c \in DOMAIN FileSchema(x)}}
                lacking == \E e \in files : c \notin DOMAIN FileSchema(e)
            IN  IF types = {"int64"} THEN (IF lacking THEN "float64" ELSE "int64")
                ELSE IF types \subseteq {"float32", "float64"}
                THEN (IF types = {"float32"} THEN "float32" ELSE "float64")
                ELSE "object"]

\* Lines 202-207: the rows of the files of chunk-000, in sorted file order.
CombinedData == PdConcat([i \in DOMAIN GlobChunk000 |-> ReadEpisodeFile(GlobChunk000[i])])

\* Step 4, lines 200-208: merge the data files of chunk-000 into one file.
\* pd.read_parquet raises on a file it cannot read; pd.concat raises
\* ValueError when there is no file at all.
MergeData ==
    /\ pc = "merge_data"
    /\ \/ /\ GlobChunk000 # <<>>
          /\ \A e \in Range(GlobChunk000) : src_schema[e] # "unreadable"
          /\ dst_data' = CombinedData
          /\ dst_files' = dst_files \cup {DataFile}
          /\ dst_stale' = dst_stale \ {DataFile}
          /\ pc' = IF video_keys(info) = <<>> THEN "episodes" ELSE "merge_video"
          /\ UNCHANGED error
       \/ /\ \E e \in Range(GlobChunk000) : src_schema[e] = "unreadable"
          /\ Fail("ArrowInvalid")
          /\ UNCHANGED <<dst_data, dst_files, dst_stale>>
       \/ /\ GlobChunk000 = <<>>
          /\ Fail("ValueError")
          /\ UNCHANGED <<dst_data, dst_files, dst_stale>>
    /\ UNCHANGED <<srcVars, callVars, info, v21_episodes, episodes_stats, video_i, idx,
                   cumulative_index, episodes_data, dst_info, dst_videos,
                   dst_episodes, dst_stats, global_stats>>

\* Step 5, lines 213-241, for one video key: write the concat manifest, run
\* ffmpeg, and on its failure copy the first video instead.  ffmpeg's exit
\* status and the outcome of the copy are the environment's choice.
MergeVideo ==
    /\ pc = "merge_video"
    /\ LET video_key == video_keys(info)[video_i]
           old_videos == Sorted(src_videos[video_key])
           next_pc == IF video_i = Len(video_keys(info)) THEN "episodes"
                      ELSE "merge_video"
       IN  \/ /\ old_videos = <<>>
              /\ pc' = next_pc
              /\ UNCHANGED <<error, dst_files, dst_stale, dst_videos>>
           \/ /\ old_videos # <<>>
              \* ffmpeg succeeds: the merged file is written, the manifest removed
              /\ dst_videos' = (video_key :> old_videos) @@ dst_videos
              /\ dst_files' = (dst_files \cup {VideoFile(video_key)})
                                  \ {ConcatFile(video_key)}
              /\ dst_stale' = dst_stale \ {ConcatFile(video_key), VideoFile(video_key)}
              /\ pc' = next_pc
              /\ UNCHANGED error
           \/ /\ old_videos # <<>>
              \* ffmpeg fails, the fallback copies the first video
              /\ dst_videos' = (video_key :> <<old_videos[1]>>) @@ dst_videos
              /\ dst_files' = dst_files \cup {ConcatFile(video_key), VideoFile(video_key)}
              /\ dst_stale' = dst_stale \ {ConcatFile(video_key), VideoFile(video_key)}
              /\ pc' = next_pc
              /\ UNCHANGED error
           \/ /\ old_videos # <<>>
              \* ffmpeg fails and so does the fallback copy
              /\ dst_files' = dst_files \cup {ConcatFile(video_key)}
              /\ dst_stale' = dst_stale \ {ConcatFile(video_key)}
              /\ Fail("OSError")
              /\ UNCHANGED dst_videos
    /\ video_i' = video_i + 1
    /\ UNCHANGED <<srcVars, callVars, info, v21_episodes, episodes_stats, idx,
                   cumulative_index, episodes_data, dst_info, dst_data,
                   dst_episodes, dst_stats, global_stats>>

\* Lines 266-283: the entries an episode gets when its data file exists.
\* ep_length is len(df_episode) of line 271.
ep_length(df_episode) == Len(df_episode)

\* Lines 272-273: the row range assigned at the cursor.
RowRange(cursor, df_episode) ==
    [dataset_from_index |-> cursor,
     dataset_to_index |-> cursor + ep_length(df_episode)]

VideoEntries_FirstRowOnly(inf, df_episode) ==
    [k \in Range(video_keys(inf)) |->
        [chunk_index |-> 0, file_index |-> 0,
         from_timestamp |-> df_episode[1].timestamp,
         to_timestamp |-> df_episode[1].timestamp]]

\* Lines 277-283: the video entries of one episode, the same for every key.
VideoEntries(inf, df_episode) ==
    [k \in Range(video_keys(inf)) |->
        [chunk_index |-> 0, file_index |-> 0,
         from_timestamp |-> df_episode[1].timestamp,
         to_timestamp |-> df_episode[Len(df_episode)].timestamp]]

\* ep_file.exists() of line 260.
EpFileExists(ep_idx) == src_chunk[ep_idx] = Chunk000

\* Lines 252-296: the metadata row of the record `row` at the cursor.
EpisodeDict(row, cursor, ep_stats_with_q) ==
    IF EpFileExists(row.episode_index)
    THEN LET df_episode == ReadEpisodeFile(row.episode_index)
         IN  [episode_index |-> row.episode_index,
              length |-> row.length,
              data_chunk_index |-> 0,
              data_file_index |-> 0,
              dataset_from_index |-> RowRange(cursor, df_episode).dataset_from_index,
              dataset_to_index |-> RowRange(cursor, df_episode).dataset_to_index,
              videos |-> VideoEntries(info, df_episode),
              stats |-> ep_stats_with_q,
              meta_chunk_index |-> 0,
              meta_file_index |-> 0]
    ELSE [episode_index |-> row.episode_index,
          length |-> row.length,
          data_chunk_index |-> NaN,
          data_file_index |-> NaN,
          dataset_from_index |-> NaN,
          dataset_to_index |-> NaN,
          videos |-> [k \in {} |-> <<>>],
          stats |-> ep_stats_with_q,
          meta_chunk_index |-> 0,
          meta_file_index |-> 0]

\* Step 6, lines 251-296: one iteration of the loop over v21_episodes, in the
\* order of the DataFrame's rows.
EpisodeStep ==
    /\ pc = "episodes"
    /\ idx <= Len(v21_episodes)
    /\ LET row == v21_episodes[idx]
           ep_idx == row.episode_index
           ep_stats == DictGet(episodes_stats, ep_idx)
           ep_stats_with_q ==
               IF EpFileExists(ep_idx)
               THEN add_quantiles_to_episode_stats(
                        ep_stats, ReadEpisodeFile(ep_idx), info["features"])
               ELSE ep_stats
       IN  /\ episodes_stats' = DictUpdated(episodes_stats, ep_idx, ep_stats_with_q)
           /\ episodes_data' =
                  Append(episodes_data, EpisodeDict(row, cumulative_index, ep_stats_with_q))
           /\ cumulative_index' =
                  IF EpFileExists(ep_idx)
                  THEN cumulative_index + ep_length(ReadEpisodeFile(ep_idx))
                  ELSE cumulative_index
    /\ idx' = idx + 1
    /\ UNCHANGED <<pc, error, srcVars, callVars, info, v21_episodes, video_i, dst_files, dst_stale,
                   dst_info, dst_data, dst_videos, dst_episodes, dst_stats,
                   global_stats>>

\* Lines 298-299: write the per-episode metadata table.
WriteEpisodes ==
    /\ pc = "episodes"
    /\ idx > Len(v21_episodes)
    /\ dst_episodes' = episodes_data
    /\ dst_files' = dst_files \cup {EpisodesFile}
    /\ dst_stale' = dst_stale \ {EpisodesFile}
    /\ pc' = "global_stats"
    /\ UNCHANGED <<error, srcVars, callVars, info, v21_episodes, episodes_stats, video_i,
                   idx, cumulative_index, episodes_data, dst_info, dst_data,
                   dst_videos, dst_stats, global_stats>>

\* Step 8, lines 301-305: aggregate and write the global statistics.  Line 78
\* raises IndexError when no episode has statistics.
CreateGlobalStats ==
    /\ pc = "global_stats"
    /\ \/ /\ episodes_stats # <<>>
          /\ dst_stats' = compute_global_stats_from_episodes(episodes_stats)
          /\ dst_files' = dst_files \cup {StatsFile}
          /\ dst_stale' = dst_stale \ {StatsFile}
          /\ pc' = "finish"
          /\ UNCHANGED error
       \/ /\ episodes_stats = <<>>
          /\ Fail("IndexError")
          /\ UNCHANGED <<dst_stats, dst_files, dst_stale>>
    /\ UNCHANGED <<srcVars, callVars, info, v21_episodes, episodes_stats, video_i, idx,
                   cumulative_index, episodes_data, dst_info, dst_data,
                   dst_videos, dst_episodes, global_stats>>

\* Lines 307-317: the run ends (the README copy is left out: it touches no
\* file the model tracks).
Finish ==
    /\ pc = "finish"
    /\ pc' = "done"
    /\ UNCHANGED <<error, srcVars, callVars, info, v21_episodes, episodes_stats, video_i,
                   idx, cumulative_index, episodes_data, dst_files, dst_stale, dst_info,
                   dst_data, dst_videos, dst_episodes, dst_stats, global_stats>>

Next ==
    \/ LoadMetadata
    \/ ConvertInfo
    \/ ConvertTasks
    \/ MergeData
    \/ MergeVideo
    \/ EpisodeStep
    \/ WriteEpisodes
    \/ CreateGlobalStats
    \/ Finish

Spec == Init /\ [][Next]_vars

\* ------------------------------------------- properties of a completed run
Completed == pc = "done"

\* The indices the source episode index lists.
Listed == {src_episodes[i].episode_index : i \in DOMAIN src_episodes}

\* The episodes that have a data file somewhere in the source tree.
HasFile == {e \in EpisodeIds : src_chunk[e] # Absent}

\* Every listed episode has its data file in the chunk the converter reads,
\* and no other data file is there.
AllInChunk000 == \A e \in EpisodeIds : (e \in Listed) <=> (src_chunk[e] = Chunk000)

\* Every listed episode has a data file and there is no stray file; the files
\* fill chunk-000 before chunk-001: the layout of a valid v2.1 dataset of
\* possibly several chunks.
EveryEpisodeHasFile ==
    /\ \A e \in EpisodeIds : (e \in Listed) <=> (e \in HasFile)
    /\ \A e, n \in EpisodeIds :
           (e < n /\ src_chunk[e] = Chunk001) => src_chunk[n] # Chunk000

\* episodes.jsonl lists its records in increasing episode index.
StoredInOrder ==
    \A i, j \in DOMAIN src_episodes :
        i < j => src_episodes[i].episode_index < src_episodes[j].episode_index

\* The output metadata row of episode e.
OutRow(e) == dst_episodes[CHOOSE i \in DOMAIN dst_episodes :
                              dst_episodes[i].episode_index = e]

OutIndices == {dst_episodes[i].episode_index : i \in DOMAIN dst_episodes}

HasRange(r) == r.dataset_from_index # NaN /\ r.dataset_to_index # NaN

\* The row ranges of the output rows, taken in increasing episode index, are
\* contiguous from 0.
RangesContiguous ==
    \A e \in OutIndices :
        /\ HasRange(OutRow(e))
        /\ OutRow(e).dataset_from_index <= OutRow(e).dataset_to_index
        /\ e = Min(OutIndices) => OutRow(e).dataset_from_index = 0
        /\ \A n \in OutIndices :
              (n > e /\ \A m \in OutIndices : ~(e < m /\ m < n))
                  => OutRow(e).dataset_to_index = OutRow(n).dataset_from_index

\* sum of to - from over the output rows that carry a range.
RECURSIVE SpanSum(_)
SpanSum(rows) ==
    IF rows = <<>> THEN 0
    ELSE (IF HasRange(Head(rows))
          THEN Head(rows).dataset_to_index - Head(rows).dataset_from_index
          ELSE 0) + SpanSum(Tail(rows))

\* C1: after convert_to_v30 finishes, for any storage order of episodes.jsonl,
\* the output rows taken in increasing episode_index have contiguous row
\* ranges starting at 0.  Stated for sources whose data files are all in
\* chunk-000, where only the storage order is left to vary.
C1_RangesContiguousInIndexOrder ==
    (Completed /\ AllInChunk000) => RangesContiguous

\* The case the code gets right: a source stored in increasing index order.
C1_ContiguousWhenStoredInOrder ==
    (Completed /\ AllInChunk000 /\ StoredInOrder) => RangesContiguous

\* C2: after a completed conversion the total span of the row ranges (sum of
\* to - from) equals total_frames of the written descriptor.  Stated for
\* sources in which every listed episode has its data file.
C2_SpanIsTotalFrames ==
    (Completed /\ EveryEpisodeHasFile)
        => SpanSum(dst_episodes) = dst_info["total_frames"]

\* The case the code gets right: every data file is in chunk-000.
C2_SpanWhenAllInChunk000 ==
    (Completed /\ AllInChunk000)
        => SpanSum(dst_episodes) = dst_info["total_frames"]

\* C3: for every episode of the source index, the output row has
\* dataset_to_index - dataset_from_index = the frame count of its source
\* record.  Stated for sources in which every listed episode has its file.
C3_RangeLengthIsFrameCount ==
    (Completed /\ EveryEpisodeHasFile) =>
        \A i \in DOMAIN src_episodes :
            LET e == src_episodes[i].episode_index
            IN  /\ e \in OutIndices
                /\ HasRange(OutRow(e))
                /\ OutRow(e).dataset_to_index - OutRow(e).dataset_from_index
                       = src_episodes[i].length

\* The case the code gets right: the episodes whose file is in chunk-000.
C3_RangeLengthInChunk000 ==
    Completed =>
        \A i \in DOMAIN src_episodes :
            LET e == src_episodes[i].episode_index
            IN  src_chunk[e] = Chunk000 =>
                    /\ HasRange(OutRow(e))
                    /\ OutRow(e).dataset_to_index - OutRow(e).dataset_from_index
                           = src_episodes[i].length

\* The rows of the consolidated file at [from, to) of an output row.
RowsOfRange(r) == SubSeq(dst_data, r.dataset_from_index + 1, r.dataset_to_index)

\* C4: for every episode the rows of the consolidated file at
\* [dataset_from_index, dataset_to_index) are exactly the episode's source
\* rows in their order, for any order of the records of episodes.jsonl.
\* Stated for sources whose data files are all in chunk-000.
C4_RangeHoldsEpisodeRows ==
    (Completed /\ AllInChunk000) =>
        \A e \in OutIndices :
            /\ HasRange(OutRow(e))
            /\ RowsOfRange(OutRow(e)) = EpisodeRows(e, src_len[e])

\* The case the code gets right: a source stored in increasing index order.
C4_RangeWhenStoredInOrder ==
    (Completed /\ AllInChunk000 /\ StoredInOrder) =>
        \A e \in OutIndices :
            /\ HasRange(OutRow(e))
            /\ RowsOfRange(OutRow(e)) = EpisodeRows(e, src_len[e])

\* The concatenation of the data files of the episodes of S in increasing
\* episode order.
RECURSIVE ConcatInOrder(_)
ConcatInOrder(S) ==
    IF S = {} THEN <<>>
    ELSE LET e == Min(S) IN EpisodeRows(e, src_len[e]) \o ConcatInOrder(S \ {e})

\* C5: the consolidated file equals, row for row, the concatenation of the
\* source per-episode files in increasing episode order: no row is reordered,
\* duplicated or dropped.  Stated for sources in which every listed episode
\* has its data file.
C5_DataIsConcatenationOfSource ==
    (Completed /\ EveryEpisodeHasFile) => dst_data = ConcatInOrder(HasFile)

\* The case the code gets right: the files of chunk-000.
C5_DataIsConcatenationOfChunk000 ==
    DataFile \in dst_files
        => dst_data = ConcatInOrder({e \in EpisodeIds : src_chunk[e] = Chunk000})

\* C6: no silent data loss: in a run that completes without an error, every
\* episode of the source index has all its rows in the consolidated file and
\* a row range in its metadata row.  Stated for sources in which every listed
\* episode has its data file, in chunk-000 or beyond.
C6_NoSilentDataLoss ==
    (Completed /\ error = "" /\ EveryEpisodeHasFile) =>
        \A e \in Listed :
            /\ HasRange(OutRow(e))
            /\ e \in HasFile =>
                   \A f \in 1 .. src_len[e] :
                       EpisodeRows(e, src_len[e])[f] \in Range(dst_data)

\* A completed run that dropped the rows of a listed episode whose data file
\* is in another chunk.
C6_SilentLossReached ==
    /\ Completed
    /\ error = ""
    /\ \E e \in Listed :
          /\ src_chunk[e] = Chunk001
          /\ ~HasRange(OutRow(e))
          /\ EpisodeRows(e, src_len[e])[1] \notin Range(dst_data)

\* ------------------------------------------- the aggregation taken alone
\* Sample statistics of a two-dimensional feature, in hundredths, and sample
\* counts.
StatVecs == {<<100, 200>>, <<200, 100>>}
CountVals == {10, 30}
DefaultVec == <<100, 100>>

\* The counts of one shape: a scalar, a list of one element, one element per
\* dimension.
CountsOfShape(shape) ==
    CASE shape = "scalar" -> {[ndim |-> 0, v |-> <<c>>] : c \in CountVals}
      [] shape = "single" -> {[ndim |-> 1, v |-> <<c>>] : c \in CountVals}
      [] shape = "per_dimension" ->
             {[ndim |-> 1, v |-> <<c, d>>] : c \in CountVals, d \in CountVals}

\* The statistics of the feature "action" an episode may carry: either its
\* range (min, max) or its moments (mean, std, count) take sample values.
ActionStats(shape, focus) ==
    IF focus = "range"
    THEN {[min |-> lo, max |-> hi, mean |-> DefaultVec, std |-> DefaultVec,
           count |-> c] :
              lo \in StatVecs, hi \in StatVecs,
              c \in {[ndim |-> 1, v |-> <<10>>]}}
    ELSE {[min |-> DefaultVec, max |-> DefaultVec, mean |-> m, std |-> sd,
           count |-> c] :
              m \in StatVecs, sd \in StatVecs, c \in CountsOfShape(shape)}

StateStats ==
    [min |-> <<0>>, max |-> <<100>>, mean |-> <<50>>, std |-> <<10>>,
     count |-> [ndim |-> 1, v |-> <<10>>]]

\* The statistics of one episode: "action" and "state", each present or not.
EpisodeStatsSet(shape, focus) ==
    {<<>>}
    \cup {[state |-> StateStats]}
    \cup {[action |-> a] : a \in ActionStats(shape, focus)}
    \cup {[action |-> a, state |-> StateStats] : a \in ActionStats(shape, focus)}

\* Inputs of compute_global_stats_from_episodes: the statistics of 0 ..
\* MaxStatEpisodes episodes; the counts of a feature have one shape.
InitStats ==
    /\ pc = "aggregate"
    /\ FreshRun
    /\ NoCall
    /\ src_episodes = <<>>
    /\ src_stats = <<>>
    /\ src_chunk = [e \in EpisodeIds |-> Absent]
    /\ src_len = [e \in EpisodeIds |-> 1]
    /\ src_videos = [k \in {"cam"} |-> {}]
    /\ src_info = SourceInfo(<<>>)
    /\ src_missing = {}
    /\ src_schema = [e \in EpisodeIds |-> "plain"]
    /\ src_row_mb = 1
    /\ global_stats = NoStats
    /\ \E n \in 0 .. MaxStatEpisodes :
       \E shape \in {"scalar", "single", "per_dimension"} :
       \E focus \in {"range", "moments"} :
       \E st \in [1 .. n -> EpisodeStatsSet(shape, focus)] :
           /\ focus = "range" => shape = "single"
           /\ episodes_stats = [i \in 1 .. n |-> [episode_index |-> i - 1, stats |-> st[i]]]

\* compute_global_stats_from_episodes returns the global statistics.
Aggregate ==
    /\ pc = "aggregate"
    /\ episodes_stats # <<>>
    /\ global_stats' = compute_global_stats_from_episodes(episodes_stats)
    /\ pc' = "aggregated"
    /\ UNCHANGED <<error, srcVars, callVars, info, v21_episodes, episodes_stats, video_i,
                   idx, cumulative_index, episodes_data, dst_files, dst_stale, dst_info,
                   dst_data, dst_videos, dst_episodes, dst_stats>>

\* Line 78 raises IndexError on an empty dictionary.
AggregateRaises ==
    /\ pc = "aggregate"
    /\ episodes_stats = <<>>
    /\ Fail("IndexError")
    /\ UNCHANGED <<srcVars, callVars, info, v21_episodes, episodes_stats, video_i, idx,
                   cumulative_index, episodes_data, dst_files, dst_stale, dst_info,
                   dst_data, dst_videos, dst_episodes, dst_stats, global_stats>>

NextStats == Aggregate \/ AggregateRaises

SpecStats == InitStats /\ [][NextStats]_vars

\* ------------------------------------------ properties of the aggregation
Aggregated == pc = "aggregated"

\* The positions of the episodes whose statistics contain feature f.
Having(f) == {i \in DOMAIN episodes_stats : f \in DOMAIN episodes_stats[i].stats}

EpStat(i, f) == episodes_stats[i].stats[f]

\* The sum of term[i] over the positions of S.
RECURSIVE SumOver(_, _)
SumOver(S, term) ==
    IF S = {} THEN 0
    ELSE LET i == CHOOSE x \in S : TRUE IN term[i] + SumOver(S \ {i}, term)

\* The count an episode gives for dimension j of a feature: its own entry
\* when the count is per dimension, the one count of the feature otherwise.
OwnCount(c, j) == IF Len(c.v) > 1 THEN c.v[j] ELSE c.v[1]

\* C7: for every feature of the global statistics, count is the exact
\* element-wise sum of the feature's counts over the episodes that have it.
C7_CountIsSumOfEpisodeCounts ==
    Aggregated =>
        \A f \in DOMAIN global_stats :
            /\ Having(f) # {}
            /\ \A i \in Having(f) :
                   Len(global_stats[f].count) = Len(EpStat(i, f).count.v)
            /\ \A j \in DOMAIN global_stats[f].count :
                   global_stats[f].count[j] =
                       SumOver(Having(f),
                               [i \in Having(f) |-> EpStat(i, f).count.v[j]])

\* Counts per dimension that differ between the dimensions and between the
\* episodes have been summed.
C7_PerDimensionCountsSummed ==
    /\ Aggregated
    /\ "action" \in DOMAIN global_stats
    /\ global_stats["action"].count = <<40, 20>>
    /\ Cardinality(Having("action")) = 2
    /\ Len(episodes_stats) = 2

\* C8: for every feature the global mean is, element by element, the
\* average of the episode means weighted by the element's own count:
\* mean * sum(count_i) = sum(mean_i * count_i), also for counts per dimension.
C8_MeanIsWeightedByOwnCount ==
    Aggregated =>
        \A f \in DOMAIN global_stats :
            \A j \in DOMAIN global_stats[f].mean :
                LET frac == global_stats[f].mean[j]
                    own == [i \in Having(f) |-> OwnCount(EpStat(i, f).count, j)]
                IN  frac[1] * SumOver(Having(f), own) =
                        frac[2] * SumOver(Having(f),
                            [i \in Having(f) |-> EpStat(i, f).mean[j] * own[i]])

\* The case the code gets right: one count per feature and episode.
C8_MeanWeightedWhenOneCount ==
    Aggregated =>
        \A f \in DOMAIN global_stats :
            (\A i \in Having(f) : Len(EpStat(i, f).count.v) = 1) =>
                \A j \in DOMAIN global_stats[f].mean :
                    LET frac == global_stats[f].mean[j]
                        own == [i \in Having(f) |-> EpStat(i, f).count.v[1]]
                    IN  frac[1] * SumOver(Having(f), own) =
                            frac[2] * SumOver(Having(f),
                                [i \in Having(f) |-> EpStat(i, f).mean[j] * own[i]])

\* The example of the specification: counts 10 and 30, means 1.0 and 2.0
\* give the mean 1.75.
C8_ExampleIs175 ==
    (/\ Aggregated
     /\ Len(episodes_stats) = 2
     /\ Having("action") = {1, 2}
     /\ EpStat(1, "action").count.v = <<10>>
     /\ EpStat(2, "action").count.v = <<30>>
     /\ EpStat(1, "action").mean[1] = 100
     /\ EpStat(2, "action").mean[1] = 200)
        => global_stats["action"].mean[1][1] = 175 * global_stats["action"].mean[1][2]

\* C9: for every feature the global min is the element-wise minimum of the
\* episodes' min and the global max the element-wise maximum of their max,
\* over the episodes that have the feature.
C9_MinMaxAreElementwise ==
    Aggregated =>
        \A f \in DOMAIN global_stats :
            /\ \A i \in Having(f) :
                   /\ Len(global_stats[f].min) = Len(EpStat(i, f).min)
                   /\ Len(global_stats[f].max) = Len(EpStat(i, f).max)
            /\ \A j \in DOMAIN global_stats[f].min :
                   /\ \A i \in Having(f) : global_stats[f].min[j] <= EpStat(i, f).min[j]
                   /\ \E i \in Having(f) : global_stats[f].min[j] = EpStat(i, f).min[j]
            /\ \A j \in DOMAIN global_stats[f].max :
                   /\ \A i \in Having(f) : global_stats[f].max[j] >= EpStat(i, f).max[j]
                   /\ \E i \in Having(f) : global_stats[f].max[j] = EpStat(i, f).max[j]

\* The element-wise extremes are the list of no single episode.
C9_ExtremesFromDifferentEpisodes ==
    /\ Aggregated
    /\ "action" \in DOMAIN global_stats
    /\ global_stats["action"].min = <<100, 100>>
    /\ global_stats["action"].max = <<200, 200>>
    /\ Cardinality(Having("action")) = 2

\* C10: for every feature the global std is the pooled value: its square
\* times the total count of the element equals the sum of the episode
\* variances std_i^2 weighted by the element's count, with no term in the
\* episode means.
C10_StdIsPooled ==
    Aggregated =>
        \A f \in DOMAIN global_stats :
            \A j \in DOMAIN global_stats[f].std :
                LET frac == global_stats[f].std[j].radicand
                    own == [i \in Having(f) |-> OwnCount(EpStat(i, f).count, j)]
                IN  frac[1] * SumOver(Having(f), own) =
                        frac[2] * SumOver(Having(f),
                            [i \in Having(f) |->
                                EpStat(i, f).std[j] * EpStat(i, f).std[j] * own[i]])

\* The case the code gets right: one count per feature and episode.
C10_StdPooledWhenOneCount ==
    Aggregated =>
        \A f \in DOMAIN global_stats :
            (\A i \in Having(f) : Len(EpStat(i, f).count.v) = 1) =>
                \A j \in DOMAIN global_stats[f].std :
                    LET frac == global_stats[f].std[j].radicand
                        own == [i \in Having(f) |-> EpStat(i, f).count.v[1]]
                    IN  frac[1] * SumOver(Having(f), own) =
                            frac[2] * SumOver(Having(f),
                                [i \in Having(f) |->
                                    EpStat(i, f).std[j] * EpStat(i, f).std[j] * own[i]])

\* ------------------------------------------------ partial feature coverage
\* The features some episode's statistics carry.
FeaturesOfAnyEpisode ==
    UNION {DOMAIN episodes_stats[i].stats : i \in DOMAIN episodes_stats}

\* C11: when the episodes' statistics cover different features, the
\* aggregation does not abort, and every feature that at least one episode
\* has, the first episode or a later one, gets a global record taken from
\* exactly the episodes that have it.
C11_EveryFeatureOfAnyEpisodeAggregated ==
    /\ (pc = "failed" => Len(episodes_stats) = 0)
    /\ Aggregated =>
        \A f \in FeaturesOfAnyEpisode :
            /\ f \in DOMAIN global_stats
            /\ \A j \in DOMAIN global_stats[f].min :
                 global_stats[f].min[j] = Min({EpStat(i, f).min[j] : i \in Having(f)})
            /\ \A j \in DOMAIN global_stats[f].max :
                 global_stats[f].max[j] = Max({EpStat(i, f).max[j] : i \in Having(f)})

\* The case the code gets right: the features of the first episode, each
\* taken from exactly the episodes that have it.
C11_FeaturesOfFirstEpisodeAggregated ==
    /\ (pc = "failed" => Len(episodes_stats) = 0)
    /\ Aggregated =>
        /\ DOMAIN global_stats = DOMAIN episodes_stats[1].stats
        /\ \A f \in DOMAIN global_stats :
            /\ \A j \in DOMAIN global_stats[f].min :
                 global_stats[f].min[j] = Min({EpStat(i, f).min[j] : i \in Having(f)})
            /\ \A j \in DOMAIN global_stats[f].max :
                 global_stats[f].max[j] = Max({EpStat(i, f).max[j] : i \in Having(f)})

\* A feature of the first episode that the second one lacks has been
\* aggregated from the first episode alone.
C11_FeatureOfFirstEpisodeOnly ==
    /\ Aggregated
    /\ Len(episodes_stats) = 2
    /\ "action" \in DOMAIN global_stats
    /\ Having("action") = {1}

\* ------------------------------------- the quantile functions called alone
\* The arrays handed to compute_quantiles have up to MaxQuantRows rows and
\* up to MaxQuantCols columns.
MaxQuantRows == 100
MaxQuantCols == 2

\* An array of n rows and d columns: the first column holds 1 .. n, ascending
\* or descending, column c holds the (2c - 1)-fold of the first one.
QuantArray(n, d, order) ==
    [i \in 1 .. n |->
        [c \in 1 .. d |-> (2 * c - 1) * (IF order = "ascending" THEN i ELSE n + 1 - i)]]

QuantArrays ==
    {QuantArray(n, d, order) :
        n \in 1 .. MaxQuantRows, d \in 1 .. MaxQuantCols,
        order \in {"ascending", "descending"}}

\* What the run of one call holds besides the call.
NoRun ==
    /\ FreshRun
    /\ src_episodes = <<>>
    /\ src_stats = <<>>
    /\ src_chunk = [e \in EpisodeIds |-> Absent]
    /\ src_len = [e \in EpisodeIds |-> 1]
    /\ src_videos = [k \in {"cam"} |-> {}]
    /\ src_info = SourceInfo(<<>>)
    /\ src_missing = {}
    /\ src_schema = [e \in EpisodeIds |-> "plain"]
    /\ src_row_mb = 1
    /\ episodes_stats = NoStats
    /\ global_stats = NoStats

runVars == <<error, srcVars, info, v21_episodes, episodes_stats, video_i, idx,
             cumulative_index, episodes_data, dst_files, dst_stale, dst_info,
             dst_data, dst_videos, dst_episodes, dst_stats, global_stats>>

InitQuantiles ==
    /\ pc = "call"
    /\ NoRun
    /\ returned = <<>>
    /\ \E data \in QuantArrays : call = [fn |-> "compute_quantiles", data |-> data]

\* compute_quantiles(data) returns its dictionary.
ComputeQuantiles ==
    /\ pc = "call"
    /\ call.fn = "compute_quantiles"
    /\ returned' = compute_quantiles(call.data)
    /\ pc' = "returned"
    /\ UNCHANGED <<call, runVars>>

NextQuantiles == ComputeQuantiles

SpecQuantiles == InitQuantiles /\ [][NextQuantiles]_vars

Returned(fn) == pc = "returned" /\ call.fn = fn

\* The fraction frac is the decimal number hundredths / 100.
IsDecimal(frac, hundredths) == frac[1] * 100 = hundredths * frac[2]

\* C12: compute_quantiles returns five outputs, each shaped like one row of
\* the input and taken column by column (the level-q quantile of the column
\* m, 2m, .. nm in any order is m * (1 + q * (n - 1) / 100)); on the single
\* column 1 .. 100 the linear interpolation gives q01 = 1.99, q50 = 50.5
\* and q99 = 99.01.
C12_QuantilesOfOneToHundred ==
    Returned("compute_quantiles") =>
        /\ DOMAIN returned = {"q01", "q10", "q50", "q90", "q99"}
        /\ \A name \in DOMAIN returned :
              /\ Len(returned[name]) = Len(call.data[1])
              /\ \A j \in DOMAIN returned[name] :
                    IsDecimal(returned[name][j],
                        (2 * j - 1) * (100 + QuantileLevels[name] * (Len(call.data) - 1)))
        /\ Range(call.data) = {<<v>> : v \in 1 .. 100} /\ Len(call.data) = 100 =>
              /\ IsDecimal(returned["q01"][1], 199)
              /\ IsDecimal(returned["q50"][1], 5050)
              /\ IsDecimal(returned["q99"][1], 9901)

\* The quantiles of the column 100, 99, .. 1 have been computed.
C12_OneToHundredDescending ==
    /\ Returned("compute_quantiles")
    /\ Len(call.data) = 100
    /\ call.data[1] = <<100>>
    /\ call.data[100] = <<1>>
    /\ IsDecimal(returned["q50"][1], 5050)

\* Inputs of add_quantiles_to_episode_stats.  The schema gives a dtype to
\* some of the features action, state (numbers) and cam (a video); the
\* episode's data file has a column for some of the number features; the
\* episode's statistics cover some of the schema's features, each with the
\* five entries the v2.1 statistics carry.
FeatureSchemas ==
    {[f \in S |-> IF f = "cam" THEN "video" ELSE "float32"] :
        S \in SUBSET {"action", "state", "cam"}}

AugmentRows(n, cols) ==
    [i \in 1 .. n |-> [frame_index |-> <<i - 1>>] @@ [c \in cols |-> <<100 * i>>]]

AugmentStats(f, n) ==
    [min |-> IF f = "cam" THEN <<10, 20>> ELSE <<100>>,
     max |-> IF f = "cam" THEN <<90, 95>> ELSE <<100 * n>>,
     mean |-> IF f = "cam" THEN <<50, 60>> ELSE <<50 * (n + 1)>>,
     std |-> IF f = "cam" THEN <<5, 6>> ELSE <<0>>,
     count |-> [ndim |-> 1, v |-> <<n>>]]

InitAugment ==
    /\ pc = "call"
    /\ NoRun
    /\ returned = <<>>
    /\ \E n \in 1 .. MaxLen :
       \E cols \in SUBSET {"action", "state"} :
       \E features \in FeatureSchemas :
       \E S \in SUBSET DOMAIN features :
           call = [fn |-> "add_quantiles_to_episode_stats",
                   ep_stats |-> [f \in S |-> AugmentStats(f, n)],
                   df_episode |-> AugmentRows(n, cols),
                   features |-> features]

\* add_quantiles_to_episode_stats(ep_stats, df_episode, features) returns
\* the statistics it has updated.
AddQuantiles ==
    /\ pc = "call"
    /\ call.fn = "add_quantiles_to_episode_stats"
    /\ returned' = add_quantiles_to_episode_stats(call.ep_stats, call.df_episode,
                                                  call.features)
    /\ pc' = "returned"
    /\ UNCHANGED <<call, runVars>>

NextAugment == AddQuantiles

SpecAugment == InitAugment /\ [][NextAugment]_vars

QuantileKeys == {"q01", "q10", "q50", "q90", "q99"}

\* C13: for a video feature of the schema that the episode's statistics
\* cover, the augmentation sets q01 = q10 = min, q50 = mean, q90 = q99 = max
\* and leaves min, max, mean, std and count as they were.
C13_VideoQuantilesArePlaceholders ==
    Returned("add_quantiles_to_episode_stats") =>
        \A f \in DOMAIN call.ep_stats \cap DOMAIN call.features :
            call.features[f] = "video" =>
                /\ returned[f]["q01"] = call.ep_stats[f]["min"]
                /\ returned[f]["q10"] = call.ep_stats[f]["min"]
                /\ returned[f]["q50"] = call.ep_stats[f]["mean"]
                /\ returned[f]["q90"] = call.ep_stats[f]["max"]
                /\ returned[f]["q99"] = call.ep_stats[f]["max"]
                /\ \A k \in {"min", "max", "mean", "std", "count"} :
                      returned[f][k] = call.ep_stats[f][k]
                /\ DOMAIN returned[f] = DOMAIN call.ep_stats[f] \cup QuantileKeys

\* The statistics of the video feature cam have been augmented.
C13_VideoFeatureAugmented ==
    /\ Returned("add_quantiles_to_episode_stats")
    /\ "cam" \in DOMAIN call.ep_stats
    /\ "cam" \in DOMAIN call.features
    /\ call.features["cam"] = "video"
    /\ "q50" \in DOMAIN returned["cam"]
    /\ returned["cam"]["min"] # returned["cam"]["max"]

\* C14: after the augmentation every feature of the episode's statistics
\* carries the five quantile entries: computed from the raw data when the
\* feature is a column of the data file, and set by the placeholder policy
\* (q01 = q10 = min, q50 = mean, q90 = q99 = max) when it is not, whether
\* or not it is a video feature.
C14_EveryFeatureCarriesQuantiles ==
    Returned("add_quantiles_to_episode_stats") =>
        \A f \in DOMAIN call.ep_stats :
            /\ QuantileKeys \subseteq DOMAIN returned[f]
            /\ IF f \in Columns(call.df_episode)
               THEN \A name \in QuantileKeys :
                       returned[f][name] =
                           <<NpQuantile([i \in DOMAIN call.df_episode |->
                                            call.df_episode[i][f][1]],
                                        QuantileLevels[name])>>
               ELSE \A name \in QuantileKeys :
                       returned[f][name] = PlaceholderQuantiles(call.ep_stats[f])[name]

\* The case the code gets right: the features of the schema that are a video
\* or, if not, a column of the data file.
C14_QuantilesOfVideosAndColumns ==
    Returned("add_quantiles_to_episode_stats") =>
        \A f \in DOMAIN call.ep_stats \cap DOMAIN call.features :
            IF call.features[f] = "video"
            THEN \A name \in QuantileKeys :
                    returned[f][name] = PlaceholderQuantiles(call.ep_stats[f])[name]
            ELSE f \in Columns(call.df_episode) =>
                    \A name \in QuantileKeys :
                        returned[f][name] =
                            <<NpQuantile([i \in DOMAIN call.df_episode |->
                                             call.df_episode[i][f][1]],
                                         QuantileLevels[name])>>

\* A number feature of the schema and of the statistics that is no column of
\* the data file comes back without any quantile entry.
C14_NumberFeatureWithoutQuantiles ==
    /\ Returned("add_quantiles_to_episode_stats")
    /\ "state" \in DOMAIN call.ep_stats
    /\ "state" \in DOMAIN call.features
    /\ "state" \notin Columns(call.df_episode)
    /\ DOMAIN returned["state"] \cap QuantileKeys = {}

\* ------------------------------------------- properties of the video step
VideoKeys == Range(FeatureKeys) \cap {k \in DOMAIN Features : Features[k] = "video"}

\* The file-000.mp4 of video_key holds fewer episodes than the source has
\* videos of: the fallback copied the first video only.
FallbackCopyUsed(video_key) ==
    /\ video_key \in DOMAIN dst_videos
    /\ Range(dst_videos[video_key]) # src_videos[video_key]

\* C15: when the concatenation of a stream's videos fails the run still
\* goes on to its end: no exception raised inside the video step, the one of
\* the fallback copy included, leaves the step.
C15_VideoStepNeverRaises ==
    [][pc = "merge_video" => pc' # "failed"]_vars

\* The case the code gets right: ffmpeg's failure alone does not end the run.
C15_RunGoesOnAfterFallback ==
    [][(pc = "merge_video" /\ error' = "") => pc' \in {"merge_video", "episodes"}]_vars

\* The fallback copy has raised and ended the run in the video step.
C15_FallbackCopyRaised ==
    /\ pc = "failed"
    /\ error = "OSError"
    /\ ConcatFile("cam") \in dst_files
    /\ VideoFile("cam") \notin dst_files

\* A run has completed after the fallback copy of a stream.
C15_CompletedAfterFallback ==
    /\ Completed
    /\ FallbackCopyUsed("cam")
    /\ EpisodesFile \in dst_files
    /\ StatsFile \in dst_files

\* C16: when the fallback copy was used for a stream, every episode whose
\* video the stream's file lacks is flagged as degraded in the output, and
\* its time range is not written as if the consolidation had succeeded.
C16_DegradedEpisodesFlagged ==
    Completed =>
        \A video_key \in VideoKeys :
            FallbackCopyUsed(video_key) =>
                \A e \in OutIndices \cap (src_videos[video_key] \ Range(dst_videos[video_key])) :
                    \/ video_key \notin DOMAIN OutRow(e).videos
                    \/ "degraded" \in DOMAIN OutRow(e).videos[video_key]

\* The output row of episode 1 carries a plain time range in a file that
\* holds the video of episode 0 only.
C16_RangeWrittenForMissingVideo ==
    /\ Completed
    /\ FallbackCopyUsed("cam")
    /\ dst_videos["cam"] = <<0>>
    /\ 1 \in OutIndices
    /\ "cam" \in DOMAIN OutRow(1).videos
    /\ DOMAIN OutRow(1).videos["cam"] =
           {"chunk_index", "file_index", "from_timestamp", "to_timestamp"}

\* C17: the concat manifest of a stream does not exist any more once the
\* stream's step has ended, whether the step succeeded or failed, and none
\* remains when the run ends.
C17_ManifestRemoved ==
    \A video_key \in VideoKeys : ConcatFile(video_key) \notin dst_files

\* The case the code gets right: the step of a stream whose videos were all
\* merged leaves no manifest.
C17_ManifestRemovedOnSuccess ==
    [][\A video_key \in VideoKeys :
          (/\ pc = "merge_video"
           /\ ConcatFile(video_key) \notin dst_files
           /\ video_key \in DOMAIN dst_videos'
           /\ Len(dst_videos'[video_key]) > 1)
              => ConcatFile(video_key) \notin dst_files']_vars

\* A run has ended with the manifest of cam under the destination root.
C17_ManifestLeftAtEnd ==
    /\ Completed
    /\ ConcatFile("cam") \in dst_files

\* C18: for each camera stream the time ranges of the episodes, taken in
\* increasing episode index, are contiguous: the first one starts at 0 and
\* the to_timestamp of an episode is the from_timestamp of the next one.
\* Stated for sources whose data files are all in chunk-000 and whose stream
\* has a video per episode.
C18_TimeRangesContiguous ==
    (Completed /\ AllInChunk000) =>
        \A video_key \in VideoKeys :
            src_videos[video_key] = Listed =>
                \A e \in OutIndices :
                    /\ e = Min(OutIndices) => OutRow(e).videos[video_key].from_timestamp = 0
                    /\ \A n \in OutIndices :
                          (n > e /\ \A m \in OutIndices : ~(e < m /\ m < n))
                              => OutRow(e).videos[video_key].to_timestamp =
                                     OutRow(n).videos[video_key].from_timestamp

\* The time ranges of two episodes of two frames each overlap: both start
\* at 0.
C18_TimeRangesOverlap ==
    /\ Completed
    /\ AllInChunk000
    /\ StoredInOrder
    /\ OutIndices = {0, 1}
    /\ dst_videos = [cam |-> <<0, 1>>]
    /\ OutRow(0).videos["cam"].to_timestamp > 0
    /\ OutRow(1).videos["cam"].from_timestamp = 0

\* ------------------------------------------------- absent source files
\* A file the conversion needs is absent from the source root: one of the
\* metadata files, or the data file of a listed episode.
ExpectedFileAbsent ==
    \/ src_missing # {}
    \/ \E e \in Listed : src_chunk[e] = Absent

\* C20: when an expected source file is absent the run aborts with an error
\* and has written no file under the destination root when it aborts: such a
\* run never writes a file and never completes.
C20_AbortsBeforeAnyWrite ==
    ExpectedFileAbsent => (dst_files = {} /\ ~Completed)

\* The case the code gets right: a missing metadata file ends the run in
\* step 1, before any file is written.
C20_MissingMetadataAborts ==
    src_missing # {} =>
        /\ pc \in {"load", "failed"}
        /\ pc = "failed" => error = "FileNotFoundError"
        /\ dst_files = {}

\* A run has completed although a listed episode has no data file.
C20_CompletedWithoutDataFile ==
    /\ Completed
    /\ src_missing = {}
    /\ \E e \in Listed : src_chunk[e] = Absent
    /\ dst_files # {}

\* --------------------------------- a destination that is already converted
\* The files a completed conversion leaves under its destination root: the
\* five files every run writes and, for the camera, no video, the video, or
\* the video and the manifest of a failed concatenation.
ConvertedFiles == {InfoFile, TasksFile, DataFile, EpisodesFile, StatsFile}

OldDestinations ==
    {ConvertedFiles \cup V :
        V \in {{}, {VideoFile("cam")}, {VideoFile("cam"), ConcatFile("cam")}}}

\* A conversion of a source dataset whose files are all in chunk-000 and
\* stored in order, into a destination root that holds the files of an earlier
\* conversion; it is started through main (pc = "main") or by a direct call
\* of convert_to_v30 (pc = "load").
InitRerun ==
    /\ pc \in {"main", "load"}
    /\ NothingLoaded
    /\ NothingWritten
    /\ NoCall
    /\ episodes_stats = NoStats
    /\ global_stats = NoStats
    /\ dst_files \in OldDestinations
    /\ dst_stale = dst_files
    /\ \E k \in 0 .. MaxEpisodes :
         /\ src_len \in [EpisodeIds -> 1 .. MaxLen]
         /\ src_chunk = [e \in EpisodeIds |-> IF e < k THEN Chunk000 ELSE Absent]
         /\ \A e \in EpisodeIds : e >= k => src_len[e] = 1
         /\ src_episodes = [i \in 1 .. k |->
                [episode_index |-> i - 1, length |-> src_len[i - 1]]]
         /\ src_stats = [i \in 1 .. k |->
                [episode_index |-> i - 1, stats |-> SourceStats(i - 1, src_len[i - 1])]]
         /\ src_videos \in [{"cam"} -> {{}, 0 .. (k - 1)}]
         /\ src_info = SourceInfo(src_episodes)
    /\ src_missing \in {{}} \cup {{f} : f \in MetaFiles}
    /\ src_schema = [e \in EpisodeIds |-> "plain"]
    /\ src_row_mb = 1

\* main, lines 343-347: an existing destination root is removed before
\* convert_to_v30 is called.
MainRmtree ==
    /\ pc = "main"
    /\ dst_files' = {}
    /\ dst_stale' = {}
    /\ pc' = "load"
    /\ UNCHANGED <<error, srcVars, callVars, info, v21_episodes, episodes_stats,
                   video_i, idx, cumulative_index, episodes_data, dst_info,
                   dst_data, dst_videos, dst_episodes, dst_stats, global_stats>>

NextRerun == MainRmtree \/ Next

SpecRerun == InitRerun /\ [][NextRerun]_vars

\* C19: a conversion into a destination root that already holds a converted
\* dataset, which the code never rejects, yields exactly what a conversion
\* into a fresh root yields, through main as well as by a direct call of
\* convert_to_v30: when it has completed, no file of the earlier conversion
\* is left among the files of this one.
C19_RerunYieldsFreshContents ==
    Completed => dst_stale = {}

\* The cases the code gets right: main empties the destination root first,
\* and a direct call overwrites the five files every run writes.
C19_MainStartsFromEmptyRoot ==
    [][pc = "main" => (dst_files' = {} /\ dst_stale' = {} /\ pc' = "load")]_vars

C19_ConvertedFilesOverwritten ==
    Completed => dst_stale \cap ConvertedFiles = {}

\* A direct call has completed and the video of the earlier conversion is
\* still there, next to the files of this conversion.
C19_StaleVideoLeft ==
    /\ Completed
    /\ VideoFile("cam") \in dst_stale
    /\ ConvertedFiles \subseteq (dst_files \ dst_stale)

\* --------------------------------------------- metadata with repeated indices
\* The sequences of up to MaxEpisodes episode indices, repeated ones included.
IndexSeqs == UNION {[1 .. n -> EpisodeIds] : n \in 0 .. MaxEpisodes}

\* A source dataset whose episodes.jsonl and episodes_stats.jsonl list any
\* indices, some of them possibly twice; the record at position i of the
\* statistics has the count i.  The data file of a listed episode is in
\* chunk-000.
InitDuplicates ==
    /\ pc = "load"
    /\ FreshRun
    /\ NoCall
    /\ episodes_stats = NoStats
    /\ global_stats = NoStats
    /\ \E listed \in IndexSeqs :
       \E with_stats \in IndexSeqs :
         /\ src_len \in [EpisodeIds -> 1 .. MaxLen]
         /\ src_chunk = [e \in EpisodeIds |->
                IF e \in Range(listed) THEN Chunk000 ELSE Absent]
         /\ \A e \in EpisodeIds : e \notin Range(listed) => src_len[e] = 1
         /\ src_episodes = [i \in DOMAIN listed |->
                [episode_index |-> listed[i], length |-> src_len[listed[i]]]]
         /\ src_stats = [i \in DOMAIN with_stats |->
                [episode_index |-> with_stats[i], stats |-> SourceStats(with_stats[i], i)]]
         /\ src_videos = [k \in {"cam"} |-> Range(listed)]
         /\ src_info = SourceInfo(src_episodes)
    /\ src_missing \in {{}} \cup {{f} : f \in MetaFiles}
    /\ src_schema = [e \in EpisodeIds |-> "plain"]
    /\ src_row_mb = 1

SpecDuplicates == InitDuplicates /\ [][Next]_vars

\* Two records of the file carry the same episode index.
HasDuplicates(records) ==
    \E i, j \in DOMAIN records :
        i < j /\ records[i].episode_index = records[j].episode_index

\* C21: source metadata in which two records of episodes.jsonl or of
\* episodes_stats.jsonl carry the same episode index is rejected when it is
\* loaded: the run does not get past step 1 and has loaded nothing.
C21_DuplicateIndicesRejected ==
    (HasDuplicates(src_episodes) \/ HasDuplicates(src_stats)) =>
        /\ pc \in {"load", "failed"}
        /\ v21_episodes = <<>>
        /\ episodes_stats = NoStats

\* The case the code gets right: records with unique indices, in any order,
\* are accepted.
C21_UniqueRecordsAccepted ==
    [][(/\ pc = "load"
        /\ src_missing = {}
        /\ ~HasDuplicates(src_episodes)
        /\ ~HasDuplicates(src_stats))
            => (/\ pc' = "convert_info"
                /\ v21_episodes' = src_episodes
                /\ episodes_stats' = src_stats)]_vars

\* A run has completed on an index that lists episode 0 twice and on
\* statistics that record it twice: the table has both rows, the statistics
\* are those of the later record.
C21_BothRecordsKept ==
    /\ Completed
    /\ Len(dst_episodes) = 2
    /\ dst_episodes[1].episode_index = 0
    /\ dst_episodes[2].episode_index = 0
    /\ Len(src_stats) = 2
    /\ HasDuplicates(src_stats)
    /\ Len(episodes_stats) = 1
    /\ episodes_stats[1].stats["action"].count = src_stats[2].stats["action"].count

\* ------------------------------------------------- data files that differ
\* A source dataset whose episodes are stored in order with their data files
\* in chunk-000, each file being of any kind.
InitSchema ==
    /\ pc = "load"
    /\ FreshRun
    /\ NoCall
    /\ episodes_stats = NoStats
    /\ global_stats = NoStats
    /\ \E k \in 0 .. MaxEpisodes :
         /\ src_len \in [EpisodeIds -> 1 .. MaxLen]
         /\ src_schema \in [EpisodeIds -> FileKinds]
         /\ src_chunk = [e \in EpisodeIds |-> IF e < k THEN Chunk000 ELSE Absent]
         /\ \A e \in EpisodeIds : e >= k => (src_len[e] = 1 /\ src_schema[e] = "plain")
         /\ src_episodes = [i \in 1 .. k |->
                [episode_index |-> i - 1, length |-> src_len[i - 1]]]
         /\ src_stats = [i \in 1 .. k |->
                [episode_index |-> i - 1, stats |-> SourceStats(i - 1, src_len[i - 1])]]
         /\ src_videos = [c \in {"cam"} |-> 0 .. (k - 1)]
         /\ src_info = SourceInfo(src_episodes)
    /\ src_missing = {}
    /\ src_row_mb = 1

SpecSchema == InitSchema /\ [][Next]_vars

\* The files step 4 globs.
MergedFiles == Range(GlobChunk000)

UnreadableFile == \E e \in MergedFiles : src_schema[e] = "unreadable"

\* Two readable files of step 4 differ in their columns or in a column's type.
SchemaMismatch ==
    \E e, n \in MergedFiles :
        /\ src_schema[e] # "unreadable"
        /\ src_schema[n] # "unreadable"
        /\ FileSchema(e) # FileSchema(n)

\* C22: when a source episode file is unreadable, or its columns or a
\* column's type differ from those of another episode file, the
\* consolidation fails: the consolidated data file is never written and the
\* run does not complete.
C22_MismatchAborts ==
    (UnreadableFile \/ SchemaMismatch) =>
        /\ DataFile \notin dst_files
        /\ ~Completed

\* The case the code gets right: an unreadable file ends the run in step 4,
\* before the consolidated file is written.
C22_UnreadableFileAborts ==
    UnreadableFile =>
        /\ DataFile \notin dst_files
        /\ pc \in {"load", "convert_info", "convert_tasks", "merge_data", "failed"}
        /\ pc = "failed" => error = "ArrowInvalid"

\* A run has completed on two files of which only the second has the column
\* extra: the consolidated file has the union of the columns, the rows of
\* the first file filled with NaN.
C22_UnionOfColumnsWritten ==
    /\ Completed
    /\ Listed = {0, 1}
    /\ src_schema[0] = "plain"
    /\ src_schema[1] = "extra_column"
    /\ "extra" \in Columns(dst_data)
    /\ dst_data[1].episode_index = 0
    /\ dst_data[1].extra = NaN
    /\ PdConcatSchema(MergedFiles)["extra"] = "float64"

\* ------------------------------------------------------ the per-file limit
\* The size in MB of the consolidated data file that was written.
DataFileMB == Len(dst_data) * src_row_mb

\* C23: every consolidated data file holds no more than the configured
\* per-file limit, data_files_size_in_mb of the descriptor; when the episodes
\* together exceed it the rows are spread over several files, so no written
\* file is larger than the limit.
C23_DataFileWithinLimit ==
    (DataFile \in dst_files /\ InfoFile \in dst_files) =>
        DataFileMB <= dst_info["data_files_size_in_mb"]

\* The case the code gets right: data/file_index names the one file that
\* holds every row.
C23_FileIndexNamesTheOnlyFile ==
    Completed =>
        \A i \in DOMAIN dst_episodes :
            dst_episodes[i].data_file_index \in {0, NaN}

\* A run has completed with one data file of more than the limit, which
\* every episode's data/file_index names.
C23_OversizedSingleFile ==
    /\ Completed
    /\ DataFileMB > dst_info["data_files_size_in_mb"]
    /\ Listed = {0, 1}
    /\ AllInChunk000
    /\ \A i \in DOMAIN dst_episodes : dst_episodes[i].data_file_index = 0

\* ---------------------------------------------------------- the descriptor
LayoutFields == {"codebase_version", "data_path", "video_path", "total_chunks",
                 "chunks_size", "data_files_size_in_mb", "video_files_size_in_mb"}

\* C24: the written target descriptor differs from the source descriptor
\* only in the layout fields: codebase_version is v3.0, data_path and
\* video_path are the target templates, total_chunks is absent, chunks_size
\* is 1000, data_files_size_in_mb and video_files_size_in_mb are 200; every
\* other field has the value it has in the source.
C24_DescriptorDiffersInLayoutOnly ==
    InfoFile \in dst_files =>
        /\ DOMAIN dst_info = (DOMAIN src_info \ {"total_chunks"})
                                 \cup {"chunks_size", "data_files_size_in_mb",
                                       "video_files_size_in_mb"}
        /\ dst_info["codebase_version"] = "v3.0"
        /\ dst_info["data_path"] =
               "data/chunk-{chunk_index:03d}/file-{file_index:03d}.parquet"
        /\ dst_info["video_path"] =
               "videos/{video_key}/chunk-{chunk_index:03d}/file-{file_index:03d}.mp4"
        /\ dst_info["chunks_size"] = 1000
        /\ dst_info["data_files_size_in_mb"] = 200
        /\ dst_info["video_files_size_in_mb"] = 200
        /\ \A k \in DOMAIN src_info \ LayoutFields : dst_info[k] = src_info[k]

\* The descriptor of a dataset of two episodes has been written.
C24_DescriptorWritten ==
    /\ InfoFile \in dst_files
    /\ src_info["total_chunks"] = 1
    /\ src_info["codebase_version"] = "v2.1"
    /\ dst_info["total_episodes"] = 2
    /\ dst_info["total_frames"] > 2
    /\ dst_info["fps"] = 30

\* ------------------------------------------------------ the order of steps
\* The steps of convert_to_v30 in the order of its statements.
StepOrder == <<"load", "convert_info", "convert_tasks", "merge_data", "merge_video",
               "episodes", "global_stats", "finish", "done">>

StepRank(step) == CHOOSE i \in DOMAIN StepOrder : StepOrder[i] = step

MetadataLoaded == pc \notin {"load"} /\ info # <<>>
DataConsolidated == DataFile \in dst_files
VideoConsolidated == pc \in {"episodes", "global_stats", "finish", "done"}
StatisticsAggregated == StatsFile \in dst_files

\* The metadata files of the destination other than the global statistics.
MetadataWritten == {InfoFile, TasksFile, EpisodesFile} \cap dst_files # {}

\* C25: a run passes through metadata loaded, tabular data consolidated,
\* video consolidated, statistics aggregated, metadata written, done, in
\* this order: what belongs to a step exists only when the step before it
\* has succeeded; no step runs after a failure or a second time.
C25_StepsInSpecifiedOrder ==
    /\ DataConsolidated => MetadataLoaded
    /\ (VideoConsolidated /\ pc # "failed") => DataConsolidated
    /\ StatisticsAggregated => (VideoConsolidated /\ DataConsolidated)
    /\ MetadataWritten => StatisticsAggregated
    /\ Completed => (MetadataWritten /\ StatisticsAggregated)

\* The case the code gets right: the steps run in the order of the
\* statements, each at most once apart from the two loops, a step starts
\* only when the step before it has not raised, and no step follows a
\* failure or the end; the error of a failed run is the one that was raised.
C25_StepsInStatementOrder ==
    [][/\ pc \notin {"failed", "done"}
       /\ error = ""
       /\ \/ pc' = "failed" /\ error' # ""
          \/ /\ error' = ""
             /\ StepRank(pc') = StepRank(pc) + 1
          \/ /\ error' = ""
             /\ pc' = pc
             /\ pc \in {"merge_video", "episodes"}
          \/ /\ error' = ""
             /\ pc = "merge_data"
             /\ pc' = "episodes"]_vars

\* The descriptor and the tasks table are written and the data files have
\* not been looked at yet.
C25_MetadataWrittenBeforeData ==
    /\ pc = "merge_data"
    /\ InfoFile \in dst_files
    /\ TasksFile \in dst_files
    /\ ~DataConsolidated
    /\ ~StatisticsAggregated

\* C26: the descriptor is written only after every episode has been
\* processed and the global statistics produced: whenever the destination
\* holds the descriptor it also holds the consolidated data file, the
\* episode metadata table and the global statistics, and a run that failed
\* has left no descriptor.
C26_DescriptorWrittenLast ==
    /\ InfoFile \in dst_files =>
           {DataFile, EpisodesFile, StatsFile} \subseteq dst_files
    /\ pc = "failed" => InfoFile \notin dst_files

\* The case the code gets right: the episode metadata table is written after
\* every episode was processed, the global statistics after the table.
C26_TableAndStatisticsWrittenLate ==
    /\ EpisodesFile \in dst_files =>
           (idx > Len(v21_episodes) /\ {InfoFile, TasksFile, DataFile} \subseteq dst_files)
    /\ StatsFile \in dst_files => EpisodesFile \in dst_files

\* A run has failed in step 4 and the destination holds the descriptor.
C26_FailedRunLeavesDescriptor ==
    /\ pc = "failed"
    /\ error = "ValueError"
    /\ InfoFile \in dst_files
    /\ dst_info["codebase_version"] = "v3.0"
    /\ DataFile \notin dst_files

\* ------------------------------------------------ the loop over the episodes
\* The episode indices the loop of step 6 has visited, in the order of its
\* iterations.
VisitOrder == [i \in DOMAIN episodes_data |-> episodes_data[i].episode_index]

\* The loop of step 6 has ended.
LoopEnded ==
    /\ pc \in {"episodes", "global_stats", "finish", "done"}
    /\ idx > Len(v21_episodes)

\* C27: for any storage order of the records of episodes.jsonl, the loop
\* that assigns the row offsets visits the episodes in strictly increasing
\* episode index, which is the order in which their rows were concatenated.
\* Stated for sources whose data files are all in chunk-000.
C27_LoopVisitsInIndexOrder ==
    AllInChunk000 =>
        /\ \A i, j \in DOMAIN VisitOrder : i < j => VisitOrder[i] < VisitOrder[j]
        /\ LoopEnded => VisitOrder = GlobChunk000

\* The case the code gets right: records stored in increasing index.
C27_IndexOrderWhenStoredInOrder ==
    (AllInChunk000 /\ StoredInOrder) =>
        /\ \A i, j \in DOMAIN VisitOrder : i < j => VisitOrder[i] < VisitOrder[j]
        /\ LoopEnded => VisitOrder = GlobChunk000

\* The loop has visited episode 1 before episode 0, whose rows come first in
\* the consolidated file.
C27_VisitedInStorageOrder ==
    /\ LoopEnded
    /\ AllInChunk000
    /\ VisitOrder = <<1, 0>>
    /\ GlobChunk000 = <<0, 1>>
    /\ dst_data[1].episode_index = 0

\* The episodes the loop gave a row range.
Ranged == {episodes_data[i].episode_index :
              i \in {n \in DOMAIN episodes_data : HasRange(episodes_data[n])}}

\* C28: when the loop of step 6 ends, the row cursor equals the number of
\* rows of the consolidated data file, and the episodes that got a row range
\* are exactly the episodes whose files were concatenated.
C28_CursorEqualsRowsWritten ==
    LoopEnded =>
        /\ cumulative_index = Len(dst_data)
        /\ Ranged = Range(GlobChunk000)

\* The case the code gets right: every data file of chunk-000 belongs to a
\* listed episode.
C28_CursorWhenNoStrayFile ==
    (LoopEnded /\ Range(GlobChunk000) \subseteq Listed) =>
        /\ cumulative_index = Len(dst_data)
        /\ Ranged = Range(GlobChunk000)

\* The loop has ended with the cursor behind the rows written: chunk-000
\* holds the files of episodes 0 and 1, and episodes.jsonl lists episode 0
\* only.
C28_StrayFileConcatenated ==
    /\ LoopEnded
    /\ Listed = {0}
    /\ GlobChunk000 = <<0, 1>>
    /\ Ranged = {0}
    /\ cumulative_index = src_len[0]
    /\ Len(dst_data) = src_len[0] + src_len[1]

\* C29: after a completed conversion every video locator of an episode's
\* metadata row (chunk_index 0, file_index 0 of a stream) names a video file
\* that exists under the destination root, also for a stream that has no
\* source video.
C29_VideoLocatorNamesExistingFile ==
    Completed =>
        \A i \in DOMAIN dst_episodes :
            \A video_key \in DOMAIN dst_episodes[i].videos :
                /\ dst_episodes[i].videos[video_key].chunk_index = 0
                /\ dst_episodes[i].videos[video_key].file_index = 0
                /\ VideoFile(video_key) \in dst_files

\* The case the code gets right: a stream that has source videos.
C29_LocatorOfStreamWithVideos ==
    Completed =>
        \A i \in DOMAIN dst_episodes :
            \A video_key \in DOMAIN dst_episodes[i].videos :
                src_videos[video_key] # {} => VideoFile(video_key) \in dst_files

\* A run has completed and a row names the video file of cam, which has no
\* source video and no file under the destination root.
C29_LocatorOfMissingFile ==
    /\ Completed
    /\ src_videos["cam"] = {}
    /\ VideoFile("cam") \notin dst_files
    /\ \E i \in DOMAIN dst_episodes :
          /\ "cam" \in DOMAIN dst_episodes[i].videos
          /\ dst_episodes[i].videos["cam"].file_index = 0

\* --------------------------------------------------- a dataset of two cameras
\* A source dataset with the cameras cam and wrist whose episodes are stored
\* in order; the data file of a listed episode is in chunk-000 or absent;
\* each camera has a video per listed episode or none.
InitCameras ==
    /\ pc = "load"
    /\ FreshRun
    /\ NoCall
    /\ episodes_stats = NoStats
    /\ global_stats = NoStats
    /\ \E k \in 0 .. MaxEpisodes :
         /\ src_len \in [EpisodeIds -> 1 .. MaxLen]
         /\ src_chunk \in [EpisodeIds -> {Chunk000, Absent}]
         /\ \A e \in EpisodeIds : e >= k => (src_len[e] = 1 /\ src_chunk[e] = Absent)
         /\ src_episodes = [i \in 1 .. k |->
                [episode_index |-> i - 1, length |-> src_len[i - 1]]]
         /\ src_stats = [i \in 1 .. k |->
                [episode_index |-> i - 1, stats |-> SourceStats(i - 1, src_len[i - 1])]]
         /\ src_videos \in [{"cam", "wrist"} -> {{}, 0 .. (k - 1)}]
         /\ src_info = [SourceInfo(src_episodes) EXCEPT !.features = TwoCameraFeatures]
    /\ src_schema = [e \in EpisodeIds |-> "plain"]
    /\ src_row_mb = 1
    /\ src_missing = {}

SpecCameras == InitCameras /\ [][Next]_vars

\* C30: for every episode whose data file exists, the time range of its
\* metadata row is the same for all camera streams and is the episode's own
\* first and last timestamps (its rows carry the timestamps 0, 1, ..), however
\* many episodes precede it and whatever the outcome of the concatenation.
C30_TimeRangeIsOwnTimestamps ==
    \A i \in DOMAIN dst_episodes :
        LET row == dst_episodes[i]
            e == row.episode_index
        IN  EpFileExists(e) =>
                /\ DOMAIN row.videos = {"cam", "wrist"}
                /\ \A video_key \in DOMAIN row.videos :
                      /\ row.videos[video_key].from_timestamp =
                             EpisodeRows(e, src_len[e])[1].timestamp
                      /\ row.videos[video_key].to_timestamp =
                             EpisodeRows(e, src_len[e])[src_len[e]].timestamp
                      /\ row.videos[video_key].to_timestamp = src_len[e] - 1
                /\ row.videos["cam"] = row.videos["wrist"]

\* The table of two episodes of two frames has been written after the
\* concatenation of cam failed and the one of wrist succeeded.
C30_RangesAfterFallbackAndMerge ==
    /\ EpisodesFile \in dst_files
    /\ Len(dst_episodes) = 2
    /\ src_len[0] = 2
    /\ src_len[1] = 2
    /\ dst_videos = [cam |-> <<0>>, wrist |-> <<0, 1>>]
    /\ dst_episodes[2].episode_index = 1
    /\ dst_episodes[2].videos["wrist"].to_timestamp = 1
    /\ dst_episodes[2].videos["cam"].from_timestamp = 0

====
